---- MODULE Spec2Model ----
(***************************************************************************)
(* Question-paper processing pipeline (backend/src/tasks.py), its session  *)
(* store (backend/src/session_manager.py) and the HTTP handlers that read  *)
(* and regenerate answers (backend/src/main.py).                           *)
(*                                                                         *)
(* One session is modelled: every Redis key the program touches is         *)
(* prefixed with the session identifier, and upload_file draws a fresh     *)
(* identifier for every submission, so sessions do not share state.        *)
(*                                                                         *)
(* Specifications:                                                         *)
(*   Spec            the task and the handlers; store calls succeed, no    *)
(*                   time passes, the time limit does not fire             *)
(*   StoreFaultSpec  Spec plus store calls that raise; task steps are fair *)
(*   TimeLimitSpec   Spec plus the soft time limit                         *)
(*   StoreApiSpec    Spec plus SessionManager.delete_session               *)
(*   TtlSpec         the task plus clock ticks and key expiry              *)
(*   PreviewFaultSpec Spec plus store_answer calls that raise               *)
(*   EmitFaultSpec   the task and status polls, plus appends that raise     *)
(*   ResubmitSpec    Spec plus create_session on an existing identifier    *)
(*   DispatchFaultSpec the task and the clock, plus a submission whose     *)
(*                   dispatch raises; task steps and clock ticks are fair  *)
(*   ProgressSpec    the first appends of a run, one Redis command per     *)
(*                   step, interleaved with status polls                   *)
(***************************************************************************)
EXTENDS Integers, Sequences, FiniteSets, TLC

(***************************************************************************)
(* Bounds of the model.                                                    *)
(***************************************************************************)
\* largest number of questions input extraction returns
MaxQuestions == 2
\* largest number of visual-element specifications attached to one answer
MaxSpecs == 1
\* session_ttl (3600 seconds, session_manager.py 85) counted in clock ticks
TtlWindow == 2

(***************************************************************************)
(* Program constants.                                                      *)
(***************************************************************************)
\* AnswerGenerator.__init__(max_retries=3)
max_retries == 3

\* SessionStatus values
PENDING == "pending"
PROCESSING == "processing"
COMPLETE == "complete"
ERROR == "error"

VARIABLES
    session,        \* Redis hash session:<id> (the empty function: no key)
    progressLog,    \* Redis list progress:<id>
    answersList,    \* Redis list answers:<id>
    result,         \* Redis string result:<id>
    uploadFile,     \* the uploaded input file exists under upload_dir
    removeCount,    \* number of os.remove calls made on the uploaded file
    pdfStore,       \* identifiers of the documents held by PDFStorage
    pc,             \* position of the task process_question_paper
    questions,      \* task local: number of parsed questions
    i,              \* task local: loop counter of the stage 3 loop (1-based)
    attempt,        \* AnswerGenerator local: attempt of the retry loop
    content,        \* AnswerGenerator local: text the provider returned
    answers,        \* task local: list of Answer objects
    exhausted,      \* questions whose generation used up every attempt
    specAt,         \* task local: position in the stage 4 iteration
    processed_elements, \* task local: diagrams rendered so far
    diagrams_by_answer, \* task local: question id -> rendered diagrams
    pdf_identifier, \* task local: identifier returned by save_pdf
    exc,            \* exception caught by the task's except clause
    rendered,       \* outcome of every generate_diagram call, in call order
    calls,          \* provider invocations made for the question in hand
    last_error,     \* AnswerGenerator local: error of the latest failed attempt
    gen_error,      \* exception caught by the per-question except clause
    soft_limit,     \* the worker's soft time limit: armed or fired
    ttl,            \* remaining lifetime of each Redis key, in clock ticks
    appending,      \* the add_progress_event call in progress and its position
    dispatched,     \* apply_async calls made with the session id as task id
    slept,          \* time.sleep calls of the retry loop for the question in hand
    outage,         \* the store refuses add_progress_event calls
    response        \* response of the HTTP handler that ran in this step

storeVars == <<session, progressLog, answersList, result>>
fileVars == <<uploadFile, removeCount, pdfStore>>
taskVars == <<pc, questions, i, attempt, content, answers, exhausted, specAt,
              processed_elements, diagrams_by_answer, pdf_identifier, exc>>
retryVars == <<calls, last_error, gen_error>>
vars == <<storeVars, fileVars, taskVars, response,
          rendered, retryVars, soft_limit, ttl, appending, dispatched, slept,
          outage>>

(***************************************************************************)
(* Values.                                                                 *)
(***************************************************************************)
EmptyHash == [f \in {} |-> 0]
NoResult == [kind |-> "none"]
NoException == [type |-> "none", message |-> "none"]
NoResponse == [op |-> "none"]
\* value of the task's local `questions` before line 79 assigns it
Unassigned == 0 - 1
NoIdentifier == "none"
\* PDFStorage.generate_identifier: one identifier per run of the task
NewIdentifier == "pdf_1"

GeneratedText == "generated"
BlankText == "blank"
FallbackText == "Error generating answer"

Last(s) == s[Len(s)]

\* last_error = None (answer_generator.py 244)
NoError == 0

\* answer_generator.py 271-274, wrapped by 153-156: the failure raised when
\* every attempt failed names the number of attempts and the last error
RetriesExhausted(attempts, error) ==
    [type |-> "AnswerGenerationError", cause |-> "retries_exhausted",
     attempts |-> attempts, last_error |-> error]

\* answer_generator.py 153-156 wrapping the ValueError of models.py 47-50
InvalidAnswer ==
    [type |-> "AnswerGenerationError", cause |-> "invalid_answer",
     attempts |-> 0, last_error |-> NoError]

\* no add_progress_event call is in progress
NoAppend == [at |-> "none"]

\* wait_time = 2 ** attempt (answer_generator.py 264)
Backoff(a) == 2 ^ a

\* the four Redis keys of a session (session_manager.py 319-333)
Keys == {"session", "progress", "answers", "result"}

\* EXPIRE key session_ttl on each key of `keys`
Touch(t, keys) == [k \in Keys |-> IF k \in keys THEN TtlWindow ELSE t[k]]

(***************************************************************************)
(* Redis primitives used by SessionManager.                                *)
(***************************************************************************)
HSet(h, f, v) == [x \in (DOMAIN h) \cup {f} |-> IF x = f THEN v ELSE h[x]]
HGet(h, f) == IF f \in DOMAIN h THEN h[f] ELSE "nil"

StatusOf(h) == HGet(h, "status")

(***************************************************************************)
(* SessionManager (session_manager.py).                                    *)
(***************************************************************************)
\* create_session: HSET session:<id> with the initial mapping
CreateSession(h) == HSet(h, "status", PENDING)

\* update_session_status
UpdateSessionStatus(h, status) == HSet(h, "status", status)

Event(stage, progress) == [stage |-> stage, progress |-> progress]

\* add_progress_event, list part: RPUSH progress:<id>, once per event
PushEvents(log, evs) == log \o evs

\* add_progress_event, hash part: HSET progress and current_stage
ProjectEvents(h, evs) ==
    IF evs = <<>> THEN h
    ELSE HSet(HSet(h, "progress", Last(evs).progress),
              "current_stage", Last(evs).stage)

\* get_latest_progress
GetLatestProgress(h) ==
    IF "progress" \notin DOMAIN h THEN [found |-> FALSE]
    ELSE [found |-> TRUE,
          progress |-> h["progress"],
          stage |-> HGet(h, "current_stage"),
          status |-> IF "status" \in DOMAIN h THEN h["status"] ELSE PENDING]

\* store_answer that stores the loop counter, which is 1-based, as the index
StoreAnswer_OneBased(list, question_index, question_text, answer_text, diagrams_count) ==
    Append(list, [index |-> question_index + 1,
                  question |-> question_text,
                  answer |-> answer_text,
                  diagrams_count |-> diagrams_count])

\* store_answer: RPUSH answers:<id>
StoreAnswer(list, question_index, question_text, answer_text, diagrams_count) ==
    Append(list, [index |-> question_index,
                  question |-> question_text,
                  answer |-> answer_text,
                  diagrams_count |-> diagrams_count])

\* update_answer: the first entry whose index matches gets the new text
UpdateAnswer(list, question_index, new_answer_text) ==
    LET hits == {p \in 1..Len(list) : list[p].index = question_index}
    IN  IF hits = {} THEN list
        ELSE LET first == CHOOSE p \in hits : \A q \in hits : p <= q
             IN  [list EXCEPT ![first].answer = new_answer_text]

(***************************************************************************)
(* Progress arithmetic of process_question_paper (tasks.py).  Python's     *)
(* int() of a non-negative quotient is the floor.                          *)
(***************************************************************************)
\* the local percentage is published as it is
OverallProgress_Unmapped(progress) == progress

\* answer_progress_callback: 20 + int((progress / 100) * 40)
OverallProgress(progress) == 20 + ((progress * 40) \div 100)

\* the share of the question is not divided by the question count
QuestionProgress_Unscaled(k, n) == 25 + (k * 35)

\* 25 + int((i / len(questions)) * 35)
QuestionProgress(k, n) == 25 + ((k * 35) \div n)

\* 65 + int((processed_elements / total_visual_elements) * 10)
DiagramProgress(k, total) == 65 + ((k * 10) \div total)

\* the callback wraps _emit_progress with the remapped percentage
CallbackEvent(stage, progress) == Event(stage, OverallProgress(progress))

(***************************************************************************)
(* Stage 4 iterates the answers and, inside, each answer's visual          *)
(* elements: Owners lists the owning answer of every specification in      *)
(* iteration order.                                                        *)
(***************************************************************************)
RECURSIVE Owners(_, _)
Owners(ans, k) ==
    IF k > Len(ans) THEN <<>>
    ELSE [j \in 1..ans[k].visual_elements |-> k] \o Owners(ans, k + 1)

\* total_visual_elements = sum(len(answer.visual_elements) for answer in answers)
TotalVisualElements(ans) == Len(Owners(ans, 1))

\* answer_diagrams.append(diagram) / diagrams_by_answer[question_id] = answer_diagrams
AddDiagram(d, owner) ==
    [x \in (DOMAIN d) \cup {owner} |->
        IF x = owner THEN (IF owner \in DOMAIN d THEN d[owner] + 1 ELSE 1)
        ELSE d[x]]

RECURSIVE SumOver(_, _)
SumOver(d, keys) ==
    IF keys = {} THEN 0
    ELSE LET k == CHOOSE x \in keys : TRUE
         IN  d[k] + SumOver(d, keys \ {k})

\* sum(len(d) for d in diagrams_by_answer.values())
DiagramsGenerated(d) == SumOver(d, DOMAIN d)

(***************************************************************************)
(* The order of the statements that end a run.                             *)
(***************************************************************************)
\* the status is set before the Result is stored
FinalizeSteps_StatusFirst ==
    <<"save_pdf", "set_complete", "store_result", "emit_complete", "cleanup">>

\* the final 100% event is left out
FinalizeSteps_NoFinalEvent == <<"save_pdf", "store_result", "set_complete", "cleanup">>

\* tasks.py 291-313 and the finally clause
FinalizeSteps == <<"save_pdf", "store_result", "set_complete", "emit_complete", "cleanup">>

\* the cleanup sits at the end of the try block instead of a finally clause
FatalSteps_NoCleanup == <<"store_error", "set_error", "emit_error">>

\* the status is set before the error Result is stored
FatalSteps_StatusFirst == <<"set_error", "store_error", "emit_error", "cleanup">>

\* tasks.py 315-348: the except clause and the finally clause
FatalSteps == <<"store_error", "set_error", "emit_error", "cleanup">>

StepAfter(steps, step) ==
    LET p == CHOOSE q \in 1..Len(steps) : steps[q] = step
    IN  IF p = Len(steps) THEN "exit" ELSE steps[p + 1]

\* the position after `step`, on the path the run is on
NextStep(step) ==
    IF exc = NoException THEN StepAfter(FinalizeSteps, step)
    ELSE StepAfter(FatalSteps, step)

\* an exception leaves the try block: control enters the except clause
Raise(type, message) ==
    /\ exc' = [type |-> type, message |-> message]
    /\ pc' = FatalSteps[1]

(***************************************************************************)
(* Init.                                                                   *)
(***************************************************************************)
Init ==
    /\ session = EmptyHash
    /\ progressLog = <<>>
    /\ answersList = <<>>
    /\ result = NoResult
    /\ uploadFile = FALSE
    /\ removeCount = 0
    /\ pdfStore = {}
    /\ pc = "idle"
    /\ questions = Unassigned
    /\ i = 0
    /\ attempt = 0
    /\ content = "none"
    /\ answers = <<>>
    /\ exhausted = {}
    /\ specAt = 0
    /\ processed_elements = 0
    /\ diagrams_by_answer = EmptyHash
    /\ pdf_identifier = NoIdentifier
    /\ exc = NoException
    /\ response = NoResponse
    /\ rendered = <<>>
    /\ calls = 0
    /\ last_error = NoError
    /\ gen_error = NoException
    /\ soft_limit = "armed"
    /\ ttl = [k \in Keys |-> 0]
    /\ appending = NoAppend
    /\ dispatched = 0
    /\ slept = <<>>
    /\ outage = FALSE

\* _emit_progress (tasks.py 381-407), once per event of evs, in order: an
\* exception of add_progress_event is logged and swallowed (406-407)
Emit(evs) ==
    /\ progressLog' = IF outage THEN progressLog ELSE PushEvents(progressLog, evs)
    /\ session' = IF outage THEN session ELSE ProjectEvents(session, evs)

\* the keys add_progress_event refreshes (session_manager.py 218, 224)
EmitKeys == IF outage THEN {} ELSE {"progress", "session"}

(***************************************************************************)
(* upload_file (main.py): an accepted submission.                          *)
(***************************************************************************)
\* the identifier of an earlier submission is handed out again
Submit_ReusedIdentifier ==
    /\ pc \in {"idle", "generate"}
    /\ session' = CreateSession(session)
    /\ uploadFile' = TRUE
    /\ pc' = "queued"
    /\ response' = [op |-> "upload", code |-> 200, status |-> PENDING]
    /\ UNCHANGED <<progressLog, answersList, result, removeCount, pdfStore,
                   questions, i, attempt, content, answers, exhausted, specAt,
                   processed_elements, diagrams_by_answer, pdf_identifier, exc>>
    /\ ttl' = Touch(ttl, {"session"})
    /\ UNCHANGED <<rendered, calls, last_error, gen_error, soft_limit>>
    /\ dispatched' = dispatched + 1
    /\ UNCHANGED <<appending, slept>>
    /\ UNCHANGED outage

\* main.py 227-266: generate_secure_token(16) draws 128 random bits, so the
\* identifier is one no earlier submission holds (pc = "idle"); the session
\* is created, the file written and one task sent with task_id = session_id
Submit ==
    /\ pc = "idle"
    /\ session' = CreateSession(session)
    /\ uploadFile' = TRUE
    /\ pc' = "queued"
    /\ response' = [op |-> "upload", code |-> 200, status |-> PENDING]
    /\ UNCHANGED <<progressLog, answersList, result, removeCount, pdfStore,
                   questions, i, attempt, content, answers, exhausted, specAt,
                   processed_elements, diagrams_by_answer, pdf_identifier, exc>>
    /\ ttl' = Touch(ttl, {"session"})
    /\ UNCHANGED <<rendered, calls, last_error, gen_error, soft_limit>>
    /\ dispatched' = dispatched + 1
    /\ UNCHANGED <<appending, slept>>
    /\ UNCHANGED outage

\* the session is created although validation then rejects the submission
SubmitRejected_CreatesSession ==
    /\ session' = CreateSession(session)
    /\ ttl' = Touch(ttl, {"session"})
    /\ response' = [op |-> "upload", code |-> 400]
    /\ UNCHANGED <<progressLog, answersList, result, fileVars, taskVars>>
    /\ UNCHANGED <<rendered, calls, last_error, gen_error, soft_limit,
                   appending, dispatched, slept>>
    /\ UNCHANGED outage

\* upload_file, main.py 187-225 and 276-278: a validation of the provider,
\* the language, the size, the file type or the extension fails before
\* line 227 and the handler answers 400
SubmitRejected ==
    /\ response' = [op |-> "upload", code |-> 400]
    /\ UNCHANGED <<storeVars, fileVars, taskVars>>
    /\ UNCHANGED <<rendered, calls, last_error, gen_error, soft_limit, ttl,
                   appending, dispatched, slept>>
    /\ UNCHANGED outage

(***************************************************************************)
(* process_question_paper (tasks.py), statement by statement.              *)
(***************************************************************************)
\* tasks.py 70
TaskStart ==
    /\ pc = "queued"
    /\ session' = UpdateSessionStatus(session, PROCESSING)
    /\ pc' = "init"
    /\ response' = NoResponse
    /\ UNCHANGED <<progressLog, answersList, result, fileVars,
                   questions, i, attempt, content, answers, exhausted, specAt,
                   processed_elements, diagrams_by_answer, pdf_identifier, exc>>
    /\ ttl' = Touch(ttl, {"session"})
    /\ UNCHANGED <<rendered, calls, last_error, gen_error, soft_limit>>
    /\ UNCHANGED <<appending, dispatched, slept>>
    /\ UNCHANGED outage

\* tasks.py 73-77
EmitInitial ==
    /\ pc = "init"
    /\ Emit(<<Event("initializing", 0), Event("parsing", 5)>>)
    /\ pc' = "parse"
    /\ response' = NoResponse
    /\ UNCHANGED <<answersList, result, fileVars,
                   questions, i, attempt, content, answers, exhausted, specAt,
                   processed_elements, diagrams_by_answer, pdf_identifier, exc>>
    /\ ttl' = Touch(ttl, EmitKeys)
    /\ UNCHANGED <<rendered, calls, last_error, gen_error, soft_limit>>
    /\ UNCHANGED <<appending, dispatched, slept>>
    /\ UNCHANGED outage

\* tasks.py 79, 365-378: extraction fails.  A parser raises ParseError; any
\* other exception is wrapped by ParseError(message) without the required
\* parse_issue argument, which raises TypeError.
ParseFails ==
    /\ pc = "parse"
    /\ \E type \in {"ParseError", "TypeError"} : Raise(type, "parse failed")
    /\ response' = NoResponse
    /\ UNCHANGED <<storeVars, fileVars,
                   questions, i, attempt, content, answers, exhausted, specAt,
                   processed_elements, diagrams_by_answer, pdf_identifier>>
    /\ UNCHANGED <<rendered, calls, last_error, gen_error, soft_limit, ttl>>
    /\ UNCHANGED <<appending, dispatched, slept>>
    /\ UNCHANGED outage

\* tasks.py 81-82: ParseError("No questions found in the input file") lacks
\* the required parse_issue argument (exceptions.py 94-100): TypeError.
ParseEmpty ==
    /\ pc = "parse"
    /\ questions' = 0
    /\ Raise("TypeError", "missing argument parse_issue")
    /\ response' = NoResponse
    /\ UNCHANGED <<storeVars, fileVars,
                   i, attempt, content, answers, exhausted, specAt,
                   processed_elements, diagrams_by_answer, pdf_identifier>>
    /\ UNCHANGED <<rendered, calls, last_error, gen_error, soft_limit, ttl>>
    /\ UNCHANGED <<appending, dispatched, slept>>
    /\ UNCHANGED outage

\* tasks.py 79-92
ParseOk ==
    /\ pc = "parse"
    /\ \E n \in 1..MaxQuestions : questions' = n
    /\ Emit(<<Event("parsing_complete", 15), Event("initializing_services", 20)>>)
    /\ pc' = "services"
    /\ response' = NoResponse
    /\ UNCHANGED <<answersList, result, fileVars,
                   i, attempt, content, answers, exhausted, specAt,
                   processed_elements, diagrams_by_answer, pdf_identifier, exc>>
    /\ ttl' = Touch(ttl, EmitKeys)
    /\ UNCHANGED <<rendered, calls, last_error, gen_error, soft_limit>>
    /\ UNCHANGED <<appending, dispatched, slept>>
    /\ UNCHANGED outage

\* tasks.py 94-177
InitServices ==
    /\ pc = "services"
    /\ Emit(<<Event("generating_answers", 25)>>)
    /\ answers' = <<>>
    /\ i' = 1
    /\ pc' = "question"
    /\ response' = NoResponse
    /\ UNCHANGED <<answersList, result, fileVars,
                   questions, attempt, content, exhausted, specAt,
                   processed_elements, diagrams_by_answer, pdf_identifier, exc>>
    /\ ttl' = Touch(ttl, EmitKeys)
    /\ UNCHANGED <<rendered, calls, last_error, gen_error, soft_limit>>
    /\ UNCHANGED <<appending, dispatched, slept>>
    /\ UNCHANGED outage

\* tasks.py 158-164, answer_generator.py 52-88: no API key is configured for
\* the provider (or the provider is unsupported) and the constructor raises
\* AnswerGenerationError, outside the per-question try block
InitServicesFails ==
    /\ pc = "services"
    /\ Raise("AnswerGenerationError", "API key not found")
    /\ response' = NoResponse
    /\ UNCHANGED <<storeVars, fileVars,
                   questions, i, attempt, content, answers, exhausted, specAt,
                   processed_elements, diagrams_by_answer, pdf_identifier>>
    /\ UNCHANGED <<rendered, calls, last_error, gen_error, soft_limit, ttl>>
    /\ UNCHANGED <<appending, dispatched, slept>>
    /\ UNCHANGED outage

\* tasks.py 178-188
AnnounceQuestion ==
    /\ pc = "question"
    /\ Emit(<<Event("generating_answer", QuestionProgress(i, questions))>>)
    /\ pc' = "generate"
    /\ response' = NoResponse
    /\ UNCHANGED <<answersList, result, fileVars,
                   questions, i, attempt, content, answers, exhausted, specAt,
                   processed_elements, diagrams_by_answer, pdf_identifier, exc>>
    /\ ttl' = Touch(ttl, EmitKeys)
    /\ UNCHANGED <<rendered, calls, last_error, gen_error, soft_limit>>
    /\ UNCHANGED <<appending, dispatched, slept>>
    /\ UNCHANGED outage

\* answer_generator.py 116-126 and 244-245, called from tasks.py 190
GenerateStart ==
    /\ pc = "generate"
    /\ Emit(<<CallbackEvent("knowledge_search", 10),
              CallbackEvent("context_building", 20),
              CallbackEvent("answer_generation", 40)>>)
    /\ attempt' = 0
    /\ pc' = "llm"
    /\ response' = NoResponse
    /\ UNCHANGED <<answersList, result, fileVars,
                   questions, i, content, answers, exhausted, specAt,
                   processed_elements, diagrams_by_answer, pdf_identifier, exc>>
    /\ calls' = 1
    /\ last_error' = NoError
    /\ gen_error' = NoException
    /\ ttl' = Touch(ttl, EmitKeys)
    /\ UNCHANGED <<rendered, soft_limit>>
    /\ slept' = <<>>
    /\ UNCHANGED <<appending, dispatched>>
    /\ UNCHANGED outage

\* answer_generator.py 246-258: the provider call returns
LLMReturns ==
    /\ pc = "llm"
    /\ \E text \in {GeneratedText, BlankText} : content' = text
    /\ pc' = "detect"
    /\ response' = NoResponse
    /\ UNCHANGED <<storeVars, fileVars,
                   questions, i, attempt, answers, exhausted, specAt,
                   processed_elements, diagrams_by_answer, pdf_identifier, exc>>
    /\ UNCHANGED <<rendered, calls, last_error, gen_error, soft_limit, ttl>>
    /\ UNCHANGED <<appending, dispatched, slept>>
    /\ UNCHANGED outage

\* the loop allows one attempt more than max_retries
LLMRetry_OneMore ==
    /\ pc = "llm"
    /\ attempt < max_retries
    /\ attempt' = attempt + 1
    /\ response' = NoResponse
    /\ UNCHANGED <<storeVars, fileVars, pc,
                   questions, i, content, answers, exhausted, specAt,
                   processed_elements, diagrams_by_answer, pdf_identifier, exc>>
    /\ calls' = calls + 1
    /\ last_error' = calls
    /\ UNCHANGED <<rendered, gen_error, soft_limit, ttl>>
    /\ slept' = Append(slept, Backoff(attempt))
    /\ UNCHANGED <<appending, dispatched>>
    /\ UNCHANGED outage

\* answer_generator.py 260-266: the call fails and an attempt remains
LLMRetry ==
    /\ pc = "llm"
    /\ attempt < max_retries - 1
    /\ attempt' = attempt + 1
    /\ response' = NoResponse
    /\ UNCHANGED <<storeVars, fileVars, pc,
                   questions, i, content, answers, exhausted, specAt,
                   processed_elements, diagrams_by_answer, pdf_identifier, exc>>
    /\ calls' = calls + 1
    /\ last_error' = calls
    /\ UNCHANGED <<rendered, gen_error, soft_limit, ttl>>
    /\ slept' = Append(slept, Backoff(attempt))
    /\ UNCHANGED <<appending, dispatched>>
    /\ UNCHANGED outage

\* the wrapper sleeps once more before it gives up
LLMExhausted_Waits ==
    /\ pc = "llm"
    /\ ~(attempt < max_retries - 1)
    /\ exhausted' = exhausted \cup {i}
    /\ pc' = "fallback"
    /\ response' = NoResponse
    /\ UNCHANGED <<storeVars, fileVars,
                   questions, i, attempt, content, answers, specAt,
                   processed_elements, diagrams_by_answer, pdf_identifier, exc>>
    /\ last_error' = calls
    /\ gen_error' = RetriesExhausted(max_retries, calls)
    /\ UNCHANGED <<rendered, calls, soft_limit, ttl>>
    /\ slept' = Append(slept, Backoff(attempt))
    /\ UNCHANGED <<appending, dispatched>>
    /\ UNCHANGED outage

\* answer_generator.py 267-274 and 153-156: the last attempt fails
LLMExhausted ==
    /\ pc = "llm"
    /\ ~(attempt < max_retries - 1)
    /\ exhausted' = exhausted \cup {i}
    /\ pc' = "fallback"
    /\ response' = NoResponse
    /\ UNCHANGED <<storeVars, fileVars,
                   questions, i, attempt, content, answers, specAt,
                   processed_elements, diagrams_by_answer, pdf_identifier, exc>>
    /\ last_error' = calls
    /\ gen_error' = RetriesExhausted(max_retries, calls)
    /\ UNCHANGED <<rendered, calls, soft_limit, ttl>>
    /\ UNCHANGED <<appending, dispatched, slept>>
    /\ UNCHANGED outage

\* the loop header of tasks.py 178 after question i
AfterQuestion ==
    IF i < questions THEN i' = i + 1 /\ pc' = "question"
    ELSE i' = i /\ pc' = "answers_done"

\* the answer is kept for the document but no preview is stored for it
GenerateReturns_NoPreview ==
    /\ pc = "detect"
    /\ content # BlankText
    /\ \E k \in 0..MaxSpecs :
        answers' = Append(answers, [question_id |-> i, content |-> content,
                                    visual_elements |-> k])
    /\ Emit(<<CallbackEvent("visual_detection", 70),
              CallbackEvent("citation_generation", 90),
              CallbackEvent("complete", 100)>>)
    /\ AfterQuestion
    /\ response' = NoResponse
    /\ UNCHANGED <<answersList, result, fileVars,
                   questions, attempt, content, exhausted, specAt,
                   processed_elements, diagrams_by_answer, pdf_identifier, exc>>
    /\ ttl' = Touch(ttl, EmitKeys)
    /\ UNCHANGED <<rendered, calls, last_error, gen_error, soft_limit>>
    /\ UNCHANGED <<appending, dispatched, slept>>
    /\ UNCHANGED outage

\* answer_generator.py 131-149 and tasks.py 191-200
GenerateReturns ==
    /\ pc = "detect"
    /\ content # BlankText
    /\ \E k \in 0..MaxSpecs :
        /\ answers' = Append(answers, [question_id |-> i, content |-> content,
                                       visual_elements |-> k])
        /\ answersList' = StoreAnswer(answersList, i - 1, i, content, k)
    /\ Emit(<<CallbackEvent("visual_detection", 70),
              CallbackEvent("citation_generation", 90),
              CallbackEvent("complete", 100)>>)
    /\ AfterQuestion
    /\ response' = NoResponse
    /\ UNCHANGED <<result, fileVars,
                   questions, attempt, content, exhausted, specAt,
                   processed_elements, diagrams_by_answer, pdf_identifier, exc>>
    /\ ttl' = Touch(ttl, EmitKeys \cup {"answers"})
    /\ UNCHANGED <<rendered, calls, last_error, gen_error, soft_limit>>
    /\ UNCHANGED <<appending, dispatched, slept>>
    /\ UNCHANGED outage

\* answer_generator.py 131-156: Answer.__post_init__ (models.py 47-50)
\* rejects blank content, and generate_answer raises AnswerGenerationError
GenerateBlank ==
    /\ pc = "detect"
    /\ content = BlankText
    /\ Emit(<<CallbackEvent("visual_detection", 70),
              CallbackEvent("citation_generation", 90),
              CallbackEvent("complete", 100)>>)
    /\ pc' = "fallback"
    /\ response' = NoResponse
    /\ UNCHANGED <<answersList, result, fileVars,
                   questions, i, attempt, content, answers, exhausted, specAt,
                   processed_elements, diagrams_by_answer, pdf_identifier, exc>>
    /\ gen_error' = InvalidAnswer
    /\ ttl' = Touch(ttl, EmitKeys)
    /\ UNCHANGED <<rendered, calls, last_error, soft_limit>>
    /\ UNCHANGED <<appending, dispatched, slept>>
    /\ UNCHANGED outage

\* the per-question except clause is missing: the failure leaves the loop
Fallback_Abort ==
    /\ pc = "fallback"
    /\ Raise("AnswerGenerationError", "generation failed")
    /\ response' = NoResponse
    /\ UNCHANGED <<storeVars, fileVars,
                   questions, i, attempt, content, answers, exhausted, specAt,
                   processed_elements, diagrams_by_answer, pdf_identifier>>
    /\ UNCHANGED <<rendered, calls, last_error, gen_error, soft_limit, ttl>>
    /\ UNCHANGED <<appending, dispatched, slept>>
    /\ UNCHANGED outage

\* tasks.py 204-225
Fallback ==
    /\ pc = "fallback"
    /\ answers' = Append(answers, [question_id |-> i, content |-> FallbackText,
                                   visual_elements |-> 0])
    /\ answersList' = StoreAnswer(answersList, i - 1, i, FallbackText, 0)
    /\ AfterQuestion
    /\ response' = NoResponse
    /\ UNCHANGED <<session, progressLog, result, fileVars,
                   questions, attempt, content, exhausted, specAt,
                   processed_elements, diagrams_by_answer, pdf_identifier, exc>>
    /\ ttl' = Touch(ttl, {"answers"})
    /\ UNCHANGED <<rendered, calls, last_error, gen_error, soft_limit>>
    /\ UNCHANGED <<appending, dispatched, slept>>
    /\ UNCHANGED outage

\* tasks.py 227-241
AnswersComplete ==
    /\ pc = "answers_done"
    /\ Emit(<<Event("answers_complete", 60), Event("generating_diagrams", 65)>>)
    /\ diagrams_by_answer' = EmptyHash
    /\ processed_elements' = 0
    /\ IF TotalVisualElements(answers) > 0
       THEN specAt' = 1 /\ pc' = "render"
       ELSE specAt' = specAt /\ pc' = "diagrams_done"
    /\ response' = NoResponse
    /\ UNCHANGED <<answersList, result, fileVars,
                   questions, i, attempt, content, answers, exhausted,
                   pdf_identifier, exc>>
    /\ ttl' = Touch(ttl, EmitKeys)
    /\ UNCHANGED <<rendered, calls, last_error, gen_error, soft_limit>>
    /\ UNCHANGED <<appending, dispatched, slept>>
    /\ UNCHANGED outage

\* the loop headers of tasks.py 242-244 after one specification
AfterSpec ==
    IF specAt < TotalVisualElements(answers)
    THEN specAt' = specAt + 1 /\ pc' = "render"
    ELSE specAt' = specAt /\ pc' = "diagrams_done"

\* tasks.py 245-256, 263-264
RenderOk ==
    /\ pc = "render"
    /\ diagrams_by_answer' = AddDiagram(diagrams_by_answer, Owners(answers, 1)[specAt])
    /\ processed_elements' = processed_elements + 1
    /\ Emit(<<Event("generating_diagram",
                    DiagramProgress(processed_elements + 1, TotalVisualElements(answers)))>>)
    /\ AfterSpec
    /\ response' = NoResponse
    /\ UNCHANGED <<answersList, result, fileVars,
                   questions, i, attempt, content, answers, exhausted,
                   pdf_identifier, exc>>
    /\ rendered' = Append(rendered, TRUE)
    /\ ttl' = Touch(ttl, EmitKeys)
    /\ UNCHANGED <<calls, last_error, gen_error, soft_limit>>
    /\ UNCHANGED <<appending, dispatched, slept>>
    /\ UNCHANGED outage

\* the rendering failure is not caught: it leaves the stage 4 loops
RenderFails_Abort ==
    /\ pc = "render"
    /\ Raise("DiagramGenerationError", "rendering failed")
    /\ rendered' = Append(rendered, FALSE)
    /\ response' = NoResponse
    /\ UNCHANGED <<storeVars, fileVars,
                   questions, i, attempt, content, answers, exhausted, specAt,
                   processed_elements, diagrams_by_answer, pdf_identifier>>
    /\ UNCHANGED <<calls, last_error, gen_error, soft_limit, ttl>>
    /\ UNCHANGED <<appending, dispatched, slept>>
    /\ UNCHANGED outage

\* tasks.py 258-261: DiagramGenerationError is logged and skipped
RenderFails ==
    /\ pc = "render"
    /\ AfterSpec
    /\ response' = NoResponse
    /\ UNCHANGED <<storeVars, fileVars,
                   questions, i, attempt, content, answers, exhausted,
                   processed_elements, diagrams_by_answer, pdf_identifier, exc>>
    /\ rendered' = Append(rendered, FALSE)
    /\ UNCHANGED <<calls, last_error, gen_error, soft_limit, ttl>>
    /\ UNCHANGED <<appending, dispatched, slept>>
    /\ UNCHANGED outage

\* tasks.py 268-275
DiagramsComplete ==
    /\ pc = "diagrams_done"
    /\ Emit(<<Event("diagrams_complete", 75), Event("generating_pdf", 80)>>)
    /\ pc' = "pdf"
    /\ response' = NoResponse
    /\ UNCHANGED <<answersList, result, fileVars,
                   questions, i, attempt, content, answers, exhausted, specAt,
                   processed_elements, diagrams_by_answer, pdf_identifier, exc>>
    /\ ttl' = Touch(ttl, EmitKeys)
    /\ UNCHANGED <<rendered, calls, last_error, gen_error, soft_limit>>
    /\ UNCHANGED <<appending, dispatched, slept>>
    /\ UNCHANGED outage

\* pdf_generator.py 133-140: the input validation of generate_pdf
PdfInputsValid == questions > 0 /\ Len(answers) > 0 /\ questions = Len(answers)

\* tasks.py 277-289
GeneratePdfOk ==
    /\ pc = "pdf"
    /\ PdfInputsValid
    /\ Emit(<<Event("pdf_complete", 90), Event("storing_pdf", 95)>>)
    /\ pc' = FinalizeSteps[1]
    /\ response' = NoResponse
    /\ UNCHANGED <<answersList, result, fileVars,
                   questions, i, attempt, content, answers, exhausted, specAt,
                   processed_elements, diagrams_by_answer, pdf_identifier, exc>>
    /\ ttl' = Touch(ttl, EmitKeys)
    /\ UNCHANGED <<rendered, calls, last_error, gen_error, soft_limit>>
    /\ UNCHANGED <<appending, dispatched, slept>>
    /\ UNCHANGED outage

\* pdf_generator.py 131-140, 212-215: validation or rendering fails
GeneratePdfFails ==
    /\ pc = "pdf"
    /\ Raise("PDFGenerationError", "pdf generation failed")
    /\ response' = NoResponse
    /\ UNCHANGED <<storeVars, fileVars,
                   questions, i, attempt, content, answers, exhausted, specAt,
                   processed_elements, diagrams_by_answer, pdf_identifier>>
    /\ UNCHANGED <<rendered, calls, last_error, gen_error, soft_limit, ttl>>
    /\ UNCHANGED <<appending, dispatched, slept>>
    /\ UNCHANGED outage

\* tasks.py 291, storage.py 198-213
SavePdfOk ==
    /\ pc = "save_pdf"
    /\ pdfStore' = pdfStore \cup {NewIdentifier}
    /\ pdf_identifier' = NewIdentifier
    /\ pc' = NextStep("save_pdf")
    /\ response' = NoResponse
    /\ UNCHANGED <<storeVars, uploadFile, removeCount,
                   questions, i, attempt, content, answers, exhausted, specAt,
                   processed_elements, diagrams_by_answer, exc>>
    /\ UNCHANGED <<rendered, calls, last_error, gen_error, soft_limit, ttl>>
    /\ UNCHANGED <<appending, dispatched, slept>>
    /\ UNCHANGED outage

\* storage.py 82-97: writing the document fails
SavePdfFails ==
    /\ pc = "save_pdf"
    /\ Raise("OSError", "cannot write pdf")
    /\ response' = NoResponse
    /\ UNCHANGED <<storeVars, fileVars,
                   questions, i, attempt, content, answers, exhausted, specAt,
                   processed_elements, diagrams_by_answer, pdf_identifier>>
    /\ UNCHANGED <<rendered, calls, last_error, gen_error, soft_limit, ttl>>
    /\ UNCHANGED <<appending, dispatched, slept>>
    /\ UNCHANGED outage

\* tasks.py 296-304
SuccessResult ==
    [kind |-> "success",
     pdf_identifier |-> pdf_identifier,
     questions_processed |-> questions,
     answers_generated |-> Len(answers),
     diagrams_generated |-> DiagramsGenerated(diagrams_by_answer)]

\* tasks.py 306
StoreResult ==
    /\ pc = "store_result"
    /\ result' = SuccessResult
    /\ pc' = NextStep("store_result")
    /\ response' = NoResponse
    /\ UNCHANGED <<session, progressLog, answersList, fileVars,
                   questions, i, attempt, content, answers, exhausted, specAt,
                   processed_elements, diagrams_by_answer, pdf_identifier, exc>>
    /\ ttl' = Touch(ttl, {"result"})
    /\ UNCHANGED <<rendered, calls, last_error, gen_error, soft_limit>>
    /\ UNCHANGED <<appending, dispatched, slept>>
    /\ UNCHANGED outage

\* tasks.py 307
SetComplete ==
    /\ pc = "set_complete"
    /\ session' = UpdateSessionStatus(session, COMPLETE)
    /\ pc' = NextStep("set_complete")
    /\ response' = NoResponse
    /\ UNCHANGED <<progressLog, answersList, result, fileVars,
                   questions, i, attempt, content, answers, exhausted, specAt,
                   processed_elements, diagrams_by_answer, pdf_identifier, exc>>
    /\ ttl' = Touch(ttl, {"session"})
    /\ UNCHANGED <<rendered, calls, last_error, gen_error, soft_limit>>
    /\ UNCHANGED <<appending, dispatched, slept>>
    /\ UNCHANGED outage

\* the final event is appended without the protection of _emit_progress
EmitComplete_Unprotected ==
    /\ pc = "emit_complete"
    /\ Emit(<<Event("complete", 100)>>)
    /\ IF outage THEN Raise("ConnectionError", "store unavailable")
       ELSE pc' = NextStep("emit_complete") /\ exc' = exc
    /\ response' = NoResponse
    /\ UNCHANGED <<answersList, result, fileVars,
                   questions, i, attempt, content, answers, exhausted, specAt,
                   processed_elements, diagrams_by_answer, pdf_identifier>>
    /\ ttl' = Touch(ttl, EmitKeys)
    /\ UNCHANGED <<rendered, calls, last_error, gen_error, soft_limit>>
    /\ UNCHANGED <<appending, dispatched, slept>>
    /\ UNCHANGED outage

\* tasks.py 309
EmitComplete ==
    /\ pc = "emit_complete"
    /\ Emit(<<Event("complete", 100)>>)
    /\ pc' = NextStep("emit_complete")
    /\ response' = NoResponse
    /\ UNCHANGED <<answersList, result, fileVars,
                   questions, i, attempt, content, answers, exhausted, specAt,
                   processed_elements, diagrams_by_answer, pdf_identifier, exc>>
    /\ ttl' = Touch(ttl, EmitKeys)
    /\ UNCHANGED <<rendered, calls, last_error, gen_error, soft_limit>>
    /\ UNCHANGED <<appending, dispatched, slept>>
    /\ UNCHANGED outage

\* tasks.py 319-328
ErrorResult ==
    [kind |-> "error",
     error |-> exc.message,
     error_type |-> exc.type,
     traceback |-> exc.type]

\* the except clause sets the status without storing the error Result
StoreErrorResult_Skipped ==
    /\ pc = "store_error"
    /\ pc' = NextStep("store_error")
    /\ response' = NoResponse
    /\ UNCHANGED <<storeVars, fileVars,
                   questions, i, attempt, content, answers, exhausted, specAt,
                   processed_elements, diagrams_by_answer, pdf_identifier, exc>>
    /\ UNCHANGED <<rendered, calls, last_error, gen_error, soft_limit, ttl>>
    /\ UNCHANGED <<appending, dispatched, slept>>
    /\ UNCHANGED outage

\* tasks.py 330
StoreErrorResult ==
    /\ pc = "store_error"
    /\ result' = ErrorResult
    /\ pc' = NextStep("store_error")
    /\ response' = NoResponse
    /\ UNCHANGED <<session, progressLog, answersList, fileVars,
                   questions, i, attempt, content, answers, exhausted, specAt,
                   processed_elements, diagrams_by_answer, pdf_identifier, exc>>
    /\ ttl' = Touch(ttl, {"result"})
    /\ UNCHANGED <<rendered, calls, last_error, gen_error, soft_limit>>
    /\ UNCHANGED <<appending, dispatched, slept>>
    /\ UNCHANGED outage

\* the except clause puts the session back to pending
SetError_Requeue ==
    /\ pc = "set_error"
    /\ session' = UpdateSessionStatus(session, PENDING)
    /\ pc' = NextStep("set_error")
    /\ response' = NoResponse
    /\ UNCHANGED <<progressLog, answersList, result, fileVars,
                   questions, i, attempt, content, answers, exhausted, specAt,
                   processed_elements, diagrams_by_answer, pdf_identifier, exc>>
    /\ ttl' = Touch(ttl, {"session"})
    /\ UNCHANGED <<rendered, calls, last_error, gen_error, soft_limit>>
    /\ UNCHANGED <<appending, dispatched, slept>>
    /\ UNCHANGED outage

\* tasks.py 331
SetError ==
    /\ pc = "set_error"
    /\ session' = UpdateSessionStatus(session, ERROR)
    /\ pc' = NextStep("set_error")
    /\ response' = NoResponse
    /\ UNCHANGED <<progressLog, answersList, result, fileVars,
                   questions, i, attempt, content, answers, exhausted, specAt,
                   processed_elements, diagrams_by_answer, pdf_identifier, exc>>
    /\ ttl' = Touch(ttl, {"session"})
    /\ UNCHANGED <<rendered, calls, last_error, gen_error, soft_limit>>
    /\ UNCHANGED <<appending, dispatched, slept>>
    /\ UNCHANGED outage

\* tasks.py 333-336
EmitError ==
    /\ pc = "emit_error"
    /\ Emit(<<Event("error", 0)>>)
    /\ pc' = NextStep("emit_error")
    /\ response' = NoResponse
    /\ UNCHANGED <<answersList, result, fileVars,
                   questions, i, attempt, content, answers, exhausted, specAt,
                   processed_elements, diagrams_by_answer, pdf_identifier, exc>>
    /\ ttl' = Touch(ttl, EmitKeys)
    /\ UNCHANGED <<rendered, calls, last_error, gen_error, soft_limit>>
    /\ UNCHANGED <<appending, dispatched, slept>>
    /\ UNCHANGED outage

\* the file is removed only when the run succeeded
Cleanup_SuccessOnly ==
    /\ pc = "cleanup"
    /\ IF uploadFile /\ exc = NoException
       THEN uploadFile' = FALSE /\ removeCount' = removeCount + 1
       ELSE UNCHANGED <<uploadFile, removeCount>>
    /\ pc' = NextStep("cleanup")
    /\ response' = NoResponse
    /\ UNCHANGED <<storeVars, pdfStore,
                   questions, i, attempt, content, answers, exhausted, specAt,
                   processed_elements, diagrams_by_answer, pdf_identifier, exc>>
    /\ UNCHANGED <<rendered, calls, last_error, gen_error, soft_limit, ttl>>
    /\ UNCHANGED <<appending, dispatched, slept>>
    /\ UNCHANGED outage

\* tasks.py 341-348: the finally clause
Cleanup ==
    /\ pc = "cleanup"
    /\ IF uploadFile
       THEN uploadFile' = FALSE /\ removeCount' = removeCount + 1
       ELSE UNCHANGED <<uploadFile, removeCount>>
    /\ pc' = NextStep("cleanup")
    /\ response' = NoResponse
    /\ UNCHANGED <<storeVars, pdfStore,
                   questions, i, attempt, content, answers, exhausted, specAt,
                   processed_elements, diagrams_by_answer, pdf_identifier, exc>>
    /\ UNCHANGED <<rendered, calls, last_error, gen_error, soft_limit, ttl>>
    /\ UNCHANGED <<appending, dispatched, slept>>
    /\ UNCHANGED outage

\* tasks.py 313 (return result_data) or 339 (raise), after the finally clause
TaskExit ==
    /\ pc = "exit"
    /\ pc' = IF exc = NoException THEN "succeeded" ELSE "failed"
    /\ response' = NoResponse
    /\ UNCHANGED <<storeVars, fileVars,
                   questions, i, attempt, content, answers, exhausted, specAt,
                   processed_elements, diagrams_by_answer, pdf_identifier, exc>>
    /\ UNCHANGED <<rendered, calls, last_error, gen_error, soft_limit, ttl>>
    /\ UNCHANGED <<appending, dispatched, slept>>
    /\ UNCHANGED outage

TaskDone == pc \in {"succeeded", "failed"}

(***************************************************************************)
(* HTTP handlers of main.py.  Each leaves its response in `response`.      *)
(***************************************************************************)
\* question_index values a caller sends
RegenerateIndices == (0 - 1)..MaxQuestions

\* the previews are returned only while the session is not in error
StatusResponse_HideOnError ==
    IF session = EmptyHash THEN [op |-> "status", code |-> 404]
    ELSE LET info == GetLatestProgress(session)
         IN  [op |-> "status", code |-> 200,
              status |-> IF "status" \in DOMAIN session THEN session["status"] ELSE PENDING,
              progress |-> IF info.found THEN info.progress ELSE 0,
              answers |-> IF HGet(session, "status") = ERROR THEN <<>> ELSE answersList]

\* get_status, main.py 341-374
StatusResponse ==
    IF session = EmptyHash THEN [op |-> "status", code |-> 404]
    ELSE LET info == GetLatestProgress(session)
         IN  [op |-> "status", code |-> 200,
              status |-> IF "status" \in DOMAIN session THEN session["status"] ELSE PENDING,
              progress |-> IF info.found THEN info.progress ELSE 0,
              answers |-> answersList]

GetStatus ==
    /\ response' = StatusResponse
    /\ UNCHANGED <<storeVars, fileVars, taskVars>>
    /\ UNCHANGED <<rendered, calls, last_error, gen_error, soft_limit, ttl>>
    /\ UNCHANGED <<appending, dispatched, slept>>
    /\ UNCHANGED outage

\* the handler does not look at the status of the session
DownloadResponse_NoStatusCheck ==
    IF session = EmptyHash THEN [op |-> "download", code |-> 404]
    ELSE IF result.kind # "success" THEN [op |-> "download", code |-> 404]
    ELSE IF result.pdf_identifier \notin pdfStore THEN [op |-> "download", code |-> 404]
    ELSE [op |-> "download", code |-> 200, document |-> result.pdf_identifier]

\* download_pdf, main.py 521-561
DownloadResponse ==
    IF session = EmptyHash THEN [op |-> "download", code |-> 404]
    ELSE IF HGet(session, "status") # COMPLETE THEN [op |-> "download", code |-> 400]
    ELSE IF result.kind # "success" THEN [op |-> "download", code |-> 404]
    ELSE IF result.pdf_identifier \notin pdfStore THEN [op |-> "download", code |-> 404]
    ELSE [op |-> "download", code |-> 200, document |-> result.pdf_identifier]

DownloadPdf ==
    /\ response' = DownloadResponse
    /\ UNCHANGED <<storeVars, fileVars, taskVars>>
    /\ UNCHANGED <<rendered, calls, last_error, gen_error, soft_limit, ttl>>
    /\ UNCHANGED <<appending, dispatched, slept>>
    /\ UNCHANGED outage

\* regenerate_answer, main.py 405-494.  Past the index check the handler
\* builds Question(id, text, marks=0, difficulty="medium") (main.py 448-453);
\* the dataclass Question (models.py 6-12) has no such fields, the call raises
\* TypeError, and the handler's except clause answers 500 (main.py 492-494)
\* before generate_answer or update_answer is reached.  answers[k] with
\* k < -len(answers) raises IndexError, answered the same way.
RegenerateResponse(k) ==
    IF session = EmptyHash THEN [op |-> "regenerate", code |-> 404, index |-> k]
    ELSE IF k >= Len(answersList) THEN [op |-> "regenerate", code |-> 400, index |-> k]
    ELSE [op |-> "regenerate", code |-> 500, index |-> k]

RegenerateAnswer ==
    /\ \E k \in RegenerateIndices : response' = RegenerateResponse(k)
    /\ UNCHANGED <<storeVars, fileVars, taskVars>>
    /\ UNCHANGED <<rendered, calls, last_error, gen_error, soft_limit, ttl>>
    /\ UNCHANGED <<appending, dispatched, slept>>
    /\ UNCHANGED outage

(***************************************************************************)
(* The system: one submission, its task, and any number of requests.       *)
(***************************************************************************)
\* one step of process_question_paper
TaskStep ==
    \/ TaskStart
    \/ EmitInitial
    \/ ParseFails
    \/ ParseEmpty
    \/ ParseOk
    \/ InitServices
    \/ InitServicesFails
    \/ AnnounceQuestion
    \/ GenerateStart
    \/ LLMReturns
    \/ LLMRetry
    \/ LLMExhausted
    \/ GenerateReturns
    \/ GenerateBlank
    \/ Fallback
    \/ AnswersComplete
    \/ RenderOk
    \/ RenderFails
    \/ DiagramsComplete
    \/ GeneratePdfOk
    \/ GeneratePdfFails
    \/ SavePdfOk
    \/ SavePdfFails
    \/ StoreResult
    \/ SetComplete
    \/ EmitComplete
    \/ StoreErrorResult
    \/ SetError
    \/ EmitError
    \/ Cleanup
    \/ TaskExit

\* one request served by main.py
Request ==
    \/ GetStatus
    \/ DownloadPdf
    \/ RegenerateAnswer

Next ==
    \/ Submit
    \/ SubmitRejected
    \/ TaskStep
    \/ Request

Spec == Init /\ [][Next]_vars

(***************************************************************************)
(* The store is unavailable for one call.  redis-py raises from the call   *)
(* and nothing is written.  The calls modelled are those that carry the    *)
(* status and the Result: tasks.py 70, 306, 307, 330 and 331.              *)
(***************************************************************************)
\* tasks.py 70 raises inside the try block
TaskStartFails ==
    /\ pc = "queued"
    /\ Raise("ConnectionError", "store unavailable")
    /\ response' = NoResponse
    /\ UNCHANGED <<storeVars, fileVars,
                   questions, i, attempt, content, answers, exhausted, specAt,
                   processed_elements, diagrams_by_answer, pdf_identifier>>
    /\ UNCHANGED <<rendered, calls, last_error, gen_error, soft_limit, ttl>>
    /\ UNCHANGED <<appending, dispatched, slept>>
    /\ UNCHANGED outage

\* tasks.py 306 raises inside the try block
StoreResultFails ==
    /\ pc = "store_result"
    /\ Raise("ConnectionError", "store unavailable")
    /\ response' = NoResponse
    /\ UNCHANGED <<storeVars, fileVars,
                   questions, i, attempt, content, answers, exhausted, specAt,
                   processed_elements, diagrams_by_answer, pdf_identifier>>
    /\ UNCHANGED <<rendered, calls, last_error, gen_error, soft_limit, ttl>>
    /\ UNCHANGED <<appending, dispatched, slept>>
    /\ UNCHANGED outage

\* tasks.py 307 raises inside the try block, after 306 stored the Result
SetCompleteFails ==
    /\ pc = "set_complete"
    /\ Raise("ConnectionError", "store unavailable")
    /\ response' = NoResponse
    /\ UNCHANGED <<storeVars, fileVars,
                   questions, i, attempt, content, answers, exhausted, specAt,
                   processed_elements, diagrams_by_answer, pdf_identifier>>
    /\ UNCHANGED <<rendered, calls, last_error, gen_error, soft_limit, ttl>>
    /\ UNCHANGED <<appending, dispatched, slept>>
    /\ UNCHANGED outage

\* tasks.py 330 raises inside the except clause: the new exception leaves
\* the clause, lines 331-339 are skipped and the finally clause runs
StoreErrorResultFails ==
    /\ pc = "store_error"
    /\ exc' = [type |-> "ConnectionError", message |-> "store unavailable"]
    /\ pc' = "cleanup"
    /\ response' = NoResponse
    /\ UNCHANGED <<storeVars, fileVars,
                   questions, i, attempt, content, answers, exhausted, specAt,
                   processed_elements, diagrams_by_answer, pdf_identifier>>
    /\ UNCHANGED <<rendered, calls, last_error, gen_error, soft_limit, ttl>>
    /\ UNCHANGED <<appending, dispatched, slept>>
    /\ UNCHANGED outage

\* tasks.py 331 raises inside the except clause, after 330 stored the Result
SetErrorFails ==
    /\ pc = "set_error"
    /\ exc' = [type |-> "ConnectionError", message |-> "store unavailable"]
    /\ pc' = "cleanup"
    /\ response' = NoResponse
    /\ UNCHANGED <<storeVars, fileVars,
                   questions, i, attempt, content, answers, exhausted, specAt,
                   processed_elements, diagrams_by_answer, pdf_identifier>>
    /\ UNCHANGED <<rendered, calls, last_error, gen_error, soft_limit, ttl>>
    /\ UNCHANGED <<appending, dispatched, slept>>
    /\ UNCHANGED outage

StoreFault ==
    \/ TaskStartFails
    \/ StoreResultFails
    \/ SetCompleteFails
    \/ StoreErrorResultFails
    \/ SetErrorFails

StoreFaultNext ==
    \/ Next
    \/ StoreFault

\* the worker executes the statements of a task it has taken one after the
\* other: a step of the task that is possible is eventually taken
StoreFaultSpec ==
    /\ Init
    /\ [][StoreFaultNext]_vars
    /\ WF_vars(TaskStep \/ StoreFault)

(***************************************************************************)
(* The soft time limit (celery_app.py 22).  The worker raises              *)
(* SoftTimeLimitExceeded, a subclass of Exception, once, inside the task,  *)
(* at the statement or library call the task is executing.                 *)
(***************************************************************************)
SoftTimeLimitExceeded ==
    [type |-> "SoftTimeLimitExceeded", message |-> "SoftTimeLimitExceeded()"]

\* the limit fires at a statement of the try block that no inner try block
\* encloses, or inside the per-question except clause (tasks.py 204-225):
\* the exception reaches the except clause of tasks.py 315
SoftLimitInTryBlock ==
    /\ soft_limit = "armed"
    /\ pc \in {"init", "services", "fallback", "answers_done", "diagrams_done",
               "save_pdf", "store_result", "set_complete", "emit_complete"}
    /\ soft_limit' = "fired"
    /\ Raise(SoftTimeLimitExceeded.type, SoftTimeLimitExceeded.message)
    /\ response' = NoResponse
    /\ UNCHANGED <<storeVars, fileVars,
                   questions, i, attempt, content, answers, exhausted, specAt,
                   processed_elements, diagrams_by_answer, pdf_identifier>>
    /\ UNCHANGED <<rendered, calls, last_error, gen_error, ttl>>
    /\ UNCHANGED <<appending, dispatched, slept>>
    /\ UNCHANGED outage

\* the limit fires inside the per-question try block (tasks.py 179-200) or
\* inside generate_answer outside the retry loop, which wraps it in
\* AnswerGenerationError (answer_generator.py 153-156): the per-question
\* except clause catches it
SoftLimitInQuestion ==
    /\ soft_limit = "armed"
    /\ pc \in {"question", "generate", "detect"}
    /\ soft_limit' = "fired"
    /\ gen_error' = SoftTimeLimitExceeded
    /\ pc' = "fallback"
    /\ response' = NoResponse
    /\ UNCHANGED <<storeVars, fileVars,
                   questions, i, attempt, content, answers, exhausted, specAt,
                   processed_elements, diagrams_by_answer, pdf_identifier, exc>>
    /\ UNCHANGED <<rendered, calls, last_error, ttl>>
    /\ UNCHANGED <<appending, dispatched, slept>>
    /\ UNCHANGED outage

\* the limit fires during a provider call: the except clause of the retry
\* loop (answer_generator.py 260-268) takes it for a failed attempt
SoftLimitInProviderCall ==
    /\ soft_limit = "armed"
    /\ pc = "llm"
    /\ soft_limit' = "fired"
    /\ last_error' = calls
    /\ IF attempt < max_retries - 1
       THEN /\ attempt' = attempt + 1
            /\ calls' = calls + 1
            /\ slept' = Append(slept, Backoff(attempt))
            /\ UNCHANGED <<pc, exhausted, gen_error>>
       ELSE /\ exhausted' = exhausted \cup {i}
            /\ gen_error' = RetriesExhausted(max_retries, calls)
            /\ pc' = "fallback"
            /\ UNCHANGED <<attempt, calls, slept>>
    /\ response' = NoResponse
    /\ UNCHANGED <<storeVars, fileVars,
                   questions, i, content, answers, specAt,
                   processed_elements, diagrams_by_answer, pdf_identifier, exc>>
    /\ UNCHANGED <<rendered, ttl>>
    /\ UNCHANGED <<appending, dispatched>>
    /\ UNCHANGED outage

\* the limit fires inside generate_diagram, which wraps it in
\* DiagramGenerationError (diagram_generator.py 83-86): skipped by
\* tasks.py 258-261
SoftLimitInRender ==
    /\ soft_limit = "armed"
    /\ pc = "render"
    /\ soft_limit' = "fired"
    /\ rendered' = Append(rendered, FALSE)
    /\ AfterSpec
    /\ response' = NoResponse
    /\ UNCHANGED <<storeVars, fileVars,
                   questions, i, attempt, content, answers, exhausted,
                   processed_elements, diagrams_by_answer, pdf_identifier, exc>>
    /\ UNCHANGED <<calls, last_error, gen_error, ttl>>
    /\ UNCHANGED <<appending, dispatched, slept>>
    /\ UNCHANGED outage

\* the limit fires inside _parse_input_file or generate_pdf, whose except
\* clauses wrap it (tasks.py 375-378 by a ParseError call that raises
\* TypeError, pdf_generator.py 212-215 by PDFGenerationError)
SoftLimitWrapped ==
    /\ soft_limit = "armed"
    /\ pc \in {"parse", "pdf"}
    /\ soft_limit' = "fired"
    /\ Raise(IF pc = "parse" THEN "TypeError" ELSE "PDFGenerationError",
             SoftTimeLimitExceeded.message)
    /\ response' = NoResponse
    /\ UNCHANGED <<storeVars, fileVars,
                   questions, i, attempt, content, answers, exhausted, specAt,
                   processed_elements, diagrams_by_answer, pdf_identifier>>
    /\ UNCHANGED <<rendered, calls, last_error, gen_error, ttl>>
    /\ UNCHANGED <<appending, dispatched, slept>>
    /\ UNCHANGED outage

\* the limit fires inside the except clause (tasks.py 317-336): the new
\* exception leaves the clause and the finally clause runs
SoftLimitInExcept ==
    /\ soft_limit = "armed"
    /\ pc \in {"store_error", "set_error", "emit_error"}
    /\ soft_limit' = "fired"
    /\ exc' = SoftTimeLimitExceeded
    /\ pc' = "cleanup"
    /\ response' = NoResponse
    /\ UNCHANGED <<storeVars, fileVars,
                   questions, i, attempt, content, answers, exhausted, specAt,
                   processed_elements, diagrams_by_answer, pdf_identifier>>
    /\ UNCHANGED <<rendered, calls, last_error, gen_error, ttl>>
    /\ UNCHANGED <<appending, dispatched, slept>>
    /\ UNCHANGED outage

\* the limit fires inside the try block of the finally clause before
\* os.remove: the except clause of tasks.py 347-348 logs it
SoftLimitInCleanup ==
    /\ soft_limit = "armed"
    /\ pc = "cleanup"
    /\ soft_limit' = "fired"
    /\ pc' = NextStep("cleanup")
    /\ response' = NoResponse
    /\ UNCHANGED <<storeVars, fileVars,
                   questions, i, attempt, content, answers, exhausted, specAt,
                   processed_elements, diagrams_by_answer, pdf_identifier, exc>>
    /\ UNCHANGED <<rendered, calls, last_error, gen_error, ttl>>
    /\ UNCHANGED <<appending, dispatched, slept>>
    /\ UNCHANGED outage

SoftLimit ==
    \/ SoftLimitInTryBlock
    \/ SoftLimitInQuestion
    \/ SoftLimitInProviderCall
    \/ SoftLimitInRender
    \/ SoftLimitWrapped
    \/ SoftLimitInExcept
    \/ SoftLimitInCleanup

TimeLimitNext ==
    \/ Next
    \/ SoftLimit

TimeLimitSpec == Init /\ [][TimeLimitNext]_vars

(***************************************************************************)
(* SessionManager.delete_session, an operation of the store that callers   *)
(* of SessionManager may invoke at any time after the submission.          *)
(***************************************************************************)
\* session_manager.py 313-317: DEL session:<id> progress:<id> result:<id>
DeleteSession ==
    /\ pc # "idle"
    /\ session' = EmptyHash
    /\ progressLog' = <<>>
    /\ result' = NoResult
    /\ ttl' = [k \in Keys |-> IF k \in {"session", "progress", "result"} THEN 0 ELSE ttl[k]]
    /\ response' = [op |-> "delete"]
    /\ UNCHANGED <<answersList, fileVars, taskVars>>
    /\ UNCHANGED <<rendered, calls, last_error, gen_error, soft_limit>>
    /\ UNCHANGED <<appending, dispatched, slept>>
    /\ UNCHANGED outage

StoreApiNext ==
    \/ Next
    \/ DeleteSession

StoreApiSpec == Init /\ [][StoreApiNext]_vars

(***************************************************************************)
(* store_answer raises (the store is unavailable for that call).  Stage 3  *)
(* calls it inside the per-question try block, after answers.append, and   *)
(* again inside the per-question except clause.                            *)
(***************************************************************************)
\* redis.exceptions.ConnectionError raised by a SessionManager call
StoreUnavailable ==
    [type |-> "ConnectionError", cause |-> "store_unavailable",
     attempts |-> 0, last_error |-> NoError]

\* tasks.py 190-204: generate_answer returned and the answer was appended
\* (191); store_answer (193-199) raises and the per-question except clause
\* catches it
StoreAnswerFails ==
    /\ pc = "detect"
    /\ content # BlankText
    /\ \E k \in 0..MaxSpecs :
        answers' = Append(answers, [question_id |-> i, content |-> content,
                                    visual_elements |-> k])
    /\ Emit(<<CallbackEvent("visual_detection", 70),
              CallbackEvent("citation_generation", 90),
              CallbackEvent("complete", 100)>>)
    /\ pc' = "fallback"
    /\ gen_error' = StoreUnavailable
    /\ response' = NoResponse
    /\ UNCHANGED <<answersList, result, fileVars,
                   questions, i, attempt, content, exhausted, specAt,
                   processed_elements, diagrams_by_answer, pdf_identifier, exc>>
    /\ ttl' = Touch(ttl, EmitKeys)
    /\ UNCHANGED <<rendered, calls, last_error, soft_limit>>
    /\ UNCHANGED <<appending, dispatched, slept>>
    /\ UNCHANGED outage

\* tasks.py 207-224: the fallback answer is appended (215) and store_answer
\* (218-224) raises inside the except clause: the exception leaves the loop
FallbackStoreFails ==
    /\ pc = "fallback"
    /\ answers' = Append(answers, [question_id |-> i, content |-> FallbackText,
                                   visual_elements |-> 0])
    /\ Raise("ConnectionError", "store unavailable")
    /\ response' = NoResponse
    /\ UNCHANGED <<storeVars, fileVars,
                   questions, i, attempt, content, exhausted, specAt,
                   processed_elements, diagrams_by_answer, pdf_identifier>>
    /\ UNCHANGED <<rendered, calls, last_error, gen_error, soft_limit, ttl>>
    /\ UNCHANGED <<appending, dispatched, slept>>
    /\ UNCHANGED outage

PreviewFault ==
    \/ StoreAnswerFails
    \/ FallbackStoreFails

PreviewFaultNext ==
    \/ Next
    \/ PreviewFault

PreviewFaultSpec == Init /\ [][PreviewFaultNext]_vars

(***************************************************************************)
(* add_progress_event raises: from some moment on the store refuses the    *)
(* appends of the run, while its other calls still succeed.                *)
(***************************************************************************)
\* session_manager.py 217: RPUSH raises from now on
StoreOutageBegins ==
    /\ ~outage
    /\ pc \notin {"idle", "succeeded", "failed"}
    /\ outage' = TRUE
    /\ UNCHANGED <<storeVars, fileVars, taskVars, response>>
    /\ UNCHANGED <<rendered, calls, last_error, gen_error, soft_limit, ttl,
                   appending, dispatched, slept>>

EmitFaultNext ==
    \/ Submit
    \/ TaskStep
    \/ GetStatus
    \/ StoreOutageBegins

EmitFaultSpec == Init /\ [][EmitFaultNext]_vars

(***************************************************************************)
(* SessionManager.create_session called with the identifier of a session  *)
(* that exists: a second submission under a caller-supplied identifier.    *)
(***************************************************************************)
\* session_manager.py 121-135: HSET session:<id> with the initial mapping,
\* whatever the key holds, then EXPIRE
CreateExistingSession ==
    /\ session # EmptyHash
    /\ session' = CreateSession(session)
    /\ ttl' = Touch(ttl, {"session"})
    /\ response' = [op |-> "create"]
    /\ UNCHANGED <<progressLog, answersList, result, fileVars, taskVars>>
    /\ UNCHANGED <<rendered, calls, last_error, gen_error, soft_limit,
                   appending, dispatched, slept, outage>>

ResubmitNext ==
    \/ Next
    \/ CreateExistingSession

ResubmitSpec == Init /\ [][ResubmitNext]_vars

(***************************************************************************)
(* Time.  Every key of the session carries the lifetime its last EXPIRE    *)
(* (or SET ... EX) gave it; Redis removes a key when its lifetime is over. *)
(***************************************************************************)
\* one clock tick passes
Tick ==
    /\ \E k \in Keys : ttl[k] > 0
    /\ ttl' = [k \in Keys |-> IF ttl[k] > 0 THEN ttl[k] - 1 ELSE 0]
    /\ session' = IF ttl["session"] = 1 THEN EmptyHash ELSE session
    /\ progressLog' = IF ttl["progress"] = 1 THEN <<>> ELSE progressLog
    /\ answersList' = IF ttl["answers"] = 1 THEN <<>> ELSE answersList
    /\ result' = IF ttl["result"] = 1 THEN NoResult ELSE result
    /\ UNCHANGED <<fileVars, taskVars, response>>
    /\ UNCHANGED <<rendered, calls, last_error, gen_error, soft_limit>>
    /\ UNCHANGED <<appending, dispatched, slept>>
    /\ UNCHANGED outage

TtlNext ==
    \/ Submit
    \/ TaskStep
    \/ Tick

TtlSpec == Init /\ [][TtlNext]_vars

(***************************************************************************)
(* upload_file when apply_async raises (the broker is unreachable), with   *)
(* time passing.                                                           *)
(***************************************************************************)
\* main.py 227-245 run, apply_async at 263-266 raises, and the except clause
\* of 279-281 answers 500: the session and the file are left as written and
\* no task exists for the identifier
SubmitDispatchFails ==
    /\ pc = "idle"
    /\ session' = CreateSession(session)
    /\ uploadFile' = TRUE
    /\ pc' = "undispatched"
    /\ response' = [op |-> "upload", code |-> 500]
    /\ ttl' = Touch(ttl, {"session"})
    /\ UNCHANGED <<progressLog, answersList, result, removeCount, pdfStore,
                   questions, i, attempt, content, answers, exhausted, specAt,
                   processed_elements, diagrams_by_answer, pdf_identifier, exc>>
    /\ UNCHANGED <<rendered, calls, last_error, gen_error, soft_limit,
                   appending, dispatched, slept, outage>>

DispatchFaultNext ==
    \/ Submit
    \/ SubmitDispatchFails
    \/ TaskStep
    \/ Tick

\* the worker executes a task it has taken step by step, and time passes
DispatchFaultSpec ==
    /\ Init
    /\ [][DispatchFaultNext]_vars
    /\ WF_vars(TaskStep)
    /\ WF_vars(Tick)

(***************************************************************************)
(* add_progress_event, one Redis command at a time.  The worker is at the  *)
(* first _emit_progress calls of the run (tasks.py 73-88); requests of     *)
(* main.py are served between any two commands.                            *)
(***************************************************************************)
\* largest number of events appended command by command
MaxEvents == 3

\* the events of tasks.py 73, 77 and 85-88
FirstEvents ==
    {Event("initializing", 0), Event("parsing", 5), Event("parsing_complete", 15)}

\* session_manager.py 213-218: RPUSH progress:<id>, EXPIRE progress:<id>
AppendPush ==
    /\ pc = "init"
    /\ appending = NoAppend
    /\ Len(progressLog) < MaxEvents
    /\ \E e \in FirstEvents :
          /\ progressLog' = PushEvents(progressLog, <<e>>)
          /\ appending' = [at |-> "pushed", event |-> e]
    /\ ttl' = Touch(ttl, {"progress"})
    /\ UNCHANGED <<session, answersList, result, fileVars, taskVars, response>>
    /\ UNCHANGED <<rendered, calls, last_error, gen_error, soft_limit,
                   dispatched, slept>>
    /\ UNCHANGED outage

\* session_manager.py 221-222: HSET session:<id> progress
AppendSetProgress ==
    /\ appending.at = "pushed"
    /\ session' = HSet(session, "progress", appending.event.progress)
    /\ appending' = [appending EXCEPT !.at = "progress_set"]
    /\ UNCHANGED <<progressLog, answersList, result, fileVars, taskVars, response>>
    /\ UNCHANGED <<rendered, calls, last_error, gen_error, soft_limit, ttl,
                   dispatched, slept>>
    /\ UNCHANGED outage

\* session_manager.py 223-224: HSET session:<id> current_stage, EXPIRE session:<id>
AppendSetStage ==
    /\ appending.at = "progress_set"
    /\ session' = HSet(session, "current_stage", appending.event.stage)
    /\ appending' = NoAppend
    /\ ttl' = Touch(ttl, {"session"})
    /\ UNCHANGED <<progressLog, answersList, result, fileVars, taskVars, response>>
    /\ UNCHANGED <<rendered, calls, last_error, gen_error, soft_limit,
                   dispatched, slept>>
    /\ UNCHANGED outage

ProgressNext ==
    \/ Submit
    \/ TaskStart
    \/ AppendPush
    \/ AppendSetProgress
    \/ AppendSetStage
    \/ GetStatus

ProgressSpec == Init /\ [][ProgressNext]_vars

(***************************************************************************)
(* Properties.                                                             *)
(***************************************************************************)
Status == StatusOf(session)

PreviewsOf(index) == {p \in 1..Len(answersList) : answersList[p].index = index}

NonDecreasing(log) ==
    \A p \in 1..(Len(log) - 1) : log[p].progress <= log[p + 1].progress

LastEventIs(stage, progress) ==
    progressLog # <<>> /\ Last(progressLog) = Event(stage, progress)

C3_FallbackIsolated ==
    /\ \A j \in 1..Len(answers) :
          /\ Cardinality(PreviewsOf(j - 1)) = 1
          /\ \A p \in PreviewsOf(j - 1) :
                /\ answersList[p].answer = answers[j].content
                /\ j \in exhausted => answersList[p].answer = FallbackText
    /\ (TaskDone /\ exhausted # {}) =>
          /\ Len(answers) = questions
          /\ \/ pc = "succeeded" /\ Status = COMPLETE
             \/ pc = "failed" /\ exc.type \in {"PDFGenerationError", "OSError"}

\* question 1 used up its retries, question 2 was answered, the run completed
C3_Witness ==
    /\ pc = "succeeded"
    /\ Status = COMPLETE
    /\ questions = 2
    /\ exhausted = {1}
    /\ answersList[1].answer = FallbackText
    /\ answersList[2].answer = GeneratedText

\* C4: on the fatal path the error Result (message, category, trace) is
\* stored before the status becomes error, the status is error before the
\* final event (stage error, 0%) is appended, that event is appended before
\* the input file is deleted, and the exception reaches the task framework
\* only after the deletion.
C4_FatalPathOrder ==
    /\ Status = ERROR => result = ErrorResult
    /\ LastEventIs("error", 0) => Status = ERROR
    /\ (exc # NoException /\ removeCount > 0) => LastEventIs("error", 0)
    /\ pc = "failed" =>
          /\ result = ErrorResult /\ exc # NoException
          /\ Status = ERROR
          /\ LastEventIs("error", 0)
          /\ ~uploadFile /\ removeCount = 1

\* a persistence failure has propagated to the task framework
C4_Witness ==
    /\ pc = "failed"
    /\ exc.type = "OSError"
    /\ result.kind = "error"

\* C5: when the status is complete the preview list has exactly one entry
\* per extracted question, at positions 1..n with indices 0..n-1, and the
\* Result reports questions_processed = answers_generated = n.
C5_PreviewsMatchQuestions ==
    Status = COMPLETE =>
        /\ Len(answersList) = questions
        /\ \A p \in 1..Len(answersList) : answersList[p].index = p - 1
        /\ result.kind = "success"
        /\ result.questions_processed = questions
        /\ result.answers_generated = questions

\* a run on two questions has completed
C5_Witness ==
    /\ pc = "succeeded"
    /\ Status = COMPLETE
    /\ questions = 2
    /\ Len(answersList) = 2

C8_RegenerateFrame ==
    [][\A k \in RegenerateIndices :
          (/\ response' = RegenerateResponse(k)
           /\ session # EmptyHash
           /\ k >= 0 /\ k < Len(answersList))
          => /\ response'.code = 200
             /\ \E text \in {GeneratedText, FallbackText} :
                   answersList' = UpdateAnswer(answersList, k, text)
             /\ UNCHANGED <<session, progressLog, result>>]_vars

\* C9: when input extraction returned zero questions no preview entry is
\* ever appended, and the run ends with status error, a stored Result that
\* carries an error message, and the input file removed.
C9_EmptyInput ==
    questions = 0 =>
        /\ answersList = <<>>
        /\ TaskDone =>
              /\ pc = "failed"
              /\ Status = ERROR
              /\ result.kind = "error"
              /\ exc # NoException /\ result.error = exc.message
              /\ ~uploadFile

\* extraction returned no question and the run has ended
C9_Witness ==
    /\ questions = 0
    /\ pc = "failed"
    /\ Status = ERROR

\* C10: on the success path the document is persisted before the success
\* Result is written, the Result holds the identifier persistence returned,
\* the Result is written before the status becomes complete, the status is
\* complete before the 100% event is appended, and a run that returns has
\* done all four.
C10_SuccessPathOrder ==
    /\ result.kind = "success" =>
          (result.pdf_identifier = pdf_identifier /\ pdf_identifier \in pdfStore)
    /\ Status = COMPLETE => result.kind = "success"
    /\ LastEventIs("complete", 100) => Status = COMPLETE
    /\ pc = "succeeded" =>
          /\ pdf_identifier \in pdfStore
          /\ result = SuccessResult
          /\ Status = COMPLETE
          /\ LastEventIs("complete", 100)

\* a run has returned with its document persisted
C10_Witness ==
    /\ pc = "succeeded"
    /\ result.kind = "success"
    /\ result.pdf_identifier \in pdfStore
    /\ LastEventIs("complete", 100)

\* the run has been taken by a worker and has not ended
Running == pc \notin {"idle", "queued", "succeeded", "failed"}

\* C11: every run that starts eventually leaves its session with status
\* complete or error, every call of the run returning or failing: the
\* status does not stay processing forever.
C11_RunReachesTerminalStatus ==
    Running ~> (Status \in {COMPLETE, ERROR})

\* C12: once a Result is stored for the session it is never written again:
\* no run stores a success Result and an error Result, and a stored Result
\* is not overwritten.
C12_ResultWrittenOnce ==
    [][result # NoResult => result' = result]_vars
\* C13: no AnswerGenerationError raised during a run ends the session in
\* status error: each one becomes a fallback answer for one question and
\* the run continues, so no error Result of that category is ever stored
\* with status error.
C13_GenerationErrorNeverFatal ==
    ~(Status = ERROR /\ result.kind = "error"
                     /\ result.error_type = "AnswerGenerationError")
\* number of artifacts rendered successfully for the answer of question q
RenderedFor(q) ==
    Cardinality({p \in 1..Len(rendered) :
                    rendered[p] /\ Owners(answers, 1)[p] = q})

\* stage 4 has been left
Stage4Done ==
    /\ questions > 0
    /\ Len(answers) = questions
    /\ pc \notin {"question", "generate", "llm", "detect", "fallback",
                   "answers_done", "render"}

\* C14: a rendering failure for one specification is skipped: it never
\* reaches the task's except clause, every specification of every answer is
\* still attempted once stage 4 has been left, the artifact map handed to
\* assembly holds for each answer exactly the artifacts that rendered
\* successfully (no entry when none did), and when no answer has a
\* specification no rendering call is made.
C14_RenderFailureSkipped ==
    /\ exc.type # "DiagramGenerationError"
    /\ Len(rendered) <= TotalVisualElements(answers)
    /\ TotalVisualElements(answers) = 0 => rendered = <<>>
    /\ Stage4Done => Len(rendered) = TotalVisualElements(answers)
    /\ \A q \in 1..Len(answers) :
          IF RenderedFor(q) = 0 THEN q \notin DOMAIN diagrams_by_answer
          ELSE q \in DOMAIN diagrams_by_answer
               /\ diagrams_by_answer[q] = RenderedFor(q)
    /\ DOMAIN diagrams_by_answer \subseteq 1..Len(answers)

\* rendering failed for the first answer's specification, succeeded for the
\* second answer's, and the run completed
C14_Witness ==
    /\ pc = "succeeded"
    /\ Status = COMPLETE
    /\ rendered = <<FALSE, TRUE>>
    /\ DOMAIN diagrams_by_answer = {2}
\* the preview entries stage 3 appended, one per answer of the task's list
PreviewsAppended ==
    [p \in 1..Len(answers) |->
        [index |-> p - 1,
         question |-> answers[p].question_id,
         answer |-> answers[p].content,
         diagrams_count |-> answers[p].visual_elements]]

\* the run left stage 3 with every question answered and then hit a fatal error
FatalAfterStage3 ==
    /\ exc # NoException
    /\ questions > 0
    /\ Len(answers) = questions

\* C15: after a fatal error in stage 4, 5 or 6 the preview list still holds
\* every entry stage 3 appended, unchanged and in the same order, also once
\* the status is error, and a status poll answered then returns that list.
C15_PreviewsSurviveFatalError ==
    FatalAfterStage3 =>
        /\ answersList = PreviewsAppended
        /\ (response.op = "status" /\ response.code = 200) =>
               response.answers = PreviewsAppended

\* document assembly failed on a run with two answers and the status was
\* polled after the session reached error
C15_Witness ==
    /\ pc = "failed"
    /\ exc.type = "PDFGenerationError"
    /\ Status = ERROR
    /\ response.op = "status"
    /\ response.status = ERROR
    /\ Len(response.answers) = 2
\* C16: once the soft time limit has fired the run is on the fatal path: the
\* exception has reached the task's except clause, no further question or
\* stage is processed, and the run ends with an error Result, status error
\* and the input file deleted.
C16_SoftLimitAborts ==
    soft_limit = "fired" =>
        /\ exc # NoException
        /\ pc \in {"store_error", "set_error", "emit_error", "cleanup",
                    "exit", "failed"}
        /\ pc = "failed" =>
              (result.kind = "error" /\ Status = ERROR /\ ~uploadFile)
\* C17: the retry loop invokes the provider at most max_retries times for
\* one question; when a call succeeds it is the call right after the last
\* failed one and no further call is made; when every attempt has failed
\* exactly max_retries calls were made and the one failure raised names the
\* error of the last attempt.  The loop ends after at most max_retries
\* iterations.
C17_RetryBounded ==
    /\ calls <= max_retries
    /\ pc = "llm" => (attempt < max_retries /\ calls = attempt + 1)
    /\ pc = "detect" => (calls = attempt + 1 /\ last_error = calls - 1)
    /\ (pc = "fallback" /\ i \in exhausted) =>
          /\ calls = max_retries
          /\ last_error = max_retries
          /\ gen_error = RetriesExhausted(max_retries, last_error)

\* every attempt for a question has failed and the failure was raised
C17_Witness ==
    /\ pc = "fallback"
    /\ i \in exhausted
    /\ calls = max_retries
    /\ gen_error = RetriesExhausted(max_retries, max_retries)
\* C18: right after delete_session the session record, the progress log,
\* the preview list and the Result of the session are all absent.
C18_DeleteRemovesAll ==
    response.op = "delete" =>
        /\ session = EmptyHash
        /\ progressLog = <<>>
        /\ answersList = <<>>
        /\ result = NoResult
\* the step writes to the session: a status, a progress event, a Result or
\* a preview entry
WritesSession ==
    \/ (StatusOf(session') # StatusOf(session) /\ session' # EmptyHash)
    \/ Len(progressLog') > Len(progressLog)
    \/ (result' # result /\ result' # NoResult)
    \/ Len(answersList') > Len(answersList)

\* C19: every write to a session leaves the session record with its full
\* time-to-live: after the write the remaining lifetime of the session
\* record is the configured window.
C19_WriteRefreshesSessionTtl ==
    [][WritesSession => ttl'["session"] = TtlWindow]_vars

\* C20: once the run has ended and the session is left alone, the session
\* record, the progress log, the Result and (when one was written) the
\* preview list have the same remaining lifetime, so that they expire at
\* the same moment.
C20_ExpireTogether ==
    TaskDone =>
        /\ ttl["progress"] = ttl["session"]
        /\ ttl["result"] = ttl["session"]
        /\ Len(answers) > 0 => ttl["answers"] = ttl["session"]
\* C21: whenever the progress log is not empty, the latest-progress
\* projection of the session record shows the percentage and the stage of
\* the last event of the log: no reader finds the two apart.
C21_AppendAtomic ==
    progressLog # <<>> =>
        LET info == GetLatestProgress(session)
        IN  /\ info.found
            /\ info.progress = Last(progressLog).progress
            /\ info.stage = Last(progressLog).stage
\* C22: a step that appends no progress event leaves the answer of
\* get_latest_progress (percentage, stage, status) as it was, whatever else
\* the step writes to the store.
C22_LatestProgressStable ==
    [][progressLog' = progressLog =>
          GetLatestProgress(session') = GetLatestProgress(session)]_vars
\* C23: a download request is answered with a document only when the
\* status of the session is complete, and the document is the one persisted
\* under the identifier held by the session's Result; in every other status
\* the request is rejected and carries no document.
C23_DownloadOnlyWhenComplete ==
    response.op = "download" =>
        IF response.code = 200
        THEN /\ Status = COMPLETE
             /\ result.kind = "success"
             /\ response.document = result.pdf_identifier
             /\ response.document \in pdfStore
        ELSE /\ "document" \notin DOMAIN response
             /\ Status # COMPLETE => response.code \in {400, 404}

\* the document of a completed run on two questions was downloaded
C23_Witness ==
    /\ Status = COMPLETE
    /\ questions = 2
    /\ response.op = "download"
    /\ response.code = 200
    /\ response.document = pdf_identifier
\* C24: a submission rejected by validation changes nothing: no session
\* record, no input file, no dispatched run, no other state; an accepted
\* submission creates the session with status pending, writes the input
\* file and dispatches one run, and a run that waits to be taken finds the
\* session pending.
C24_RejectedSubmissionNoEffect ==
    /\ [](pc = "queued" => (Status = PENDING /\ uploadFile /\ dispatched = 1))
    /\ [][response'.op = "upload" =>
             IF response'.code = 400
             THEN UNCHANGED <<storeVars, fileVars, taskVars, dispatched, ttl>>
             ELSE /\ session = EmptyHash
                  /\ Status' = PENDING
                  /\ response'.status = PENDING
                  /\ uploadFile'
                  /\ dispatched' = dispatched + 1
                  /\ pc' = "queued"]_vars

\* a submission was rejected and nothing exists for it
C24_Witness ==
    /\ response = [op |-> "upload", code |-> 400]
    /\ session = EmptyHash
    /\ ~uploadFile
    /\ dispatched = 0
InQuestionLoop == pc \in {"question", "generate", "llm", "detect", "fallback"}

GeneratorReports ==
    <<[stage |-> "knowledge_search", progress |-> 10],
      [stage |-> "context_building", progress |-> 20],
      [stage |-> "answer_generation", progress |-> 40],
      [stage |-> "visual_detection", progress |-> 70],
      [stage |-> "citation_generation", progress |-> 90],
      [stage |-> "complete", progress |-> 100]>>

\* lo + round((local / 100) * (hi - lo)), round to nearest
RoundedRemap(local, lo, hi) == lo + ((2 * local * (hi - lo) + 100) \div 200)

\* the events a step appended to the progress list
NewEvents == SubSeq(progressLog', Len(progressLog) + 1, Len(progressLog'))

\* reports from..to of the generator, as the formula of the remap publishes them
Published(from, to) ==
    [k \in 1..(to - from + 1) |->
        Event(GeneratorReports[from + k - 1].stage,
              RoundedRemap(GeneratorReports[from + k - 1].progress, 20, 60))]

\* C27: every local percentage the answer generator reports (10, 20 and 40
\* before the provider call, 70, 90 and 100 after it) is published with
\* percentage 20 + round((local / 100) * 40), under the reported stage, and
\* the published percentage lies in 20..60.
C27_CallbackRemap ==
    /\ [][(pc = "generate" /\ pc' # pc) => NewEvents = Published(1, 3)]_vars
    /\ [][(pc = "detect" /\ pc' # pc) => NewEvents = Published(4, 6)]_vars
    /\ [][(pc \in {"generate", "detect"} /\ pc' # pc) =>
             \A k \in 1..Len(NewEvents) :
                 NewEvents[k].progress \in 20..60]_vars

\* the six reports of one generate_answer call are in the list, remapped
C27_Witness ==
    /\ Len(progressLog) >= 6
    /\ SubSeq(progressLog, Len(progressLog) - 5, Len(progressLog)) =
           <<Event("knowledge_search", 24), Event("context_building", 28),
             Event("answer_generation", 36), Event("visual_detection", 48),
             Event("citation_generation", 56), Event("complete", 60)>>
\* base * multiplier^k for k = 0..n-1 with base 1 and multiplier 2
DelaySchedule(n) == [k \in 1..n |-> 1 * (2 ^ (k - 1))]

\* C28: the retry wrapper has blocked for 1, 2, 4, ... between consecutive
\* attempts, one wait per failed attempt that was followed by another
\* attempt: after `attempt` failures with a call pending or returned the
\* waits are the first `attempt` delays, and after the last failed attempt
\* there are max_retries - 1 waits, none following the last failure.
C28_BackoffSchedule ==
    /\ pc \in {"llm", "detect"} => slept = DelaySchedule(attempt)
    /\ (pc = "fallback" /\ i \in exhausted) =>
          slept = DelaySchedule(max_retries - 1)

\* every attempt failed: the wrapper waited 1 and 2 and then failed at once
C28_Witness ==
    /\ pc = "fallback"
    /\ i \in exhausted
    /\ calls = max_retries
    /\ slept = <<1, 2>>
\* the percentage range of the pipeline stage that emits an event of the
\* given name (tasks.py 73-309); the error event of the except clause
\* (tasks.py 333-336) belongs to no stage and is only held to 0..100
StageRange(stage) ==
    CASE stage = "initializing" -> 0..5
      [] stage \in {"parsing", "parsing_complete"} -> 5..20
      [] stage \in {"initializing_services", "generating_answers",
                    "generating_answer", "knowledge_search",
                    "context_building", "answer_generation",
                    "visual_detection", "citation_generation",
                    "answers_complete"} -> 20..60
      [] stage \in {"generating_diagrams", "generating_diagram",
                    "diagrams_complete"} -> 60..75
      [] stage \in {"generating_pdf", "pdf_complete"} -> 75..90
      [] stage = "storing_pdf" -> 90..100
      [] stage = "error" -> 0..100

\* the name "complete" is used twice: by generate_answer for its last report
\* (answer_generator.py 141) and by the task for its final event (tasks.py 309)
CompleteRange == IF pc = "detect" THEN 20..60 ELSE 90..100

\* C29: every progress event a step of the run appends has a percentage in
\* 0..100 inside the range of the stage that emits it: initializing 0-5,
\* parsing 5-20, answer generation 20-60, auxiliary-artifact generation
\* 60-75, document assembly 75-90, persistence and finalize 90-100, for
\* every question count and every number of specifications.
C29_EventsWithinStageRange ==
    [][\A k \in 1..Len(NewEvents) :
          /\ NewEvents[k].progress \in 0..100
          /\ NewEvents[k].progress \in
                (IF NewEvents[k].stage = "complete" THEN CompleteRange
                 ELSE StageRange(NewEvents[k].stage))]_vars

\* two questions and two specifications: events strictly inside the ranges
\* of stages 3 and 4 are in the list of a run that finished
C29_Witness ==
    /\ \E p \in 1..Len(progressLog) :
           progressLog[p] = Event("generating_answer", 42)
    /\ \E p \in 1..Len(progressLog) :
           progressLog[p] = Event("generating_diagram", 70)
    /\ LastEventIs("complete", 100)
\* C30: every failure of stage 2, whether extraction fails or it returns an
\* empty question list, is recorded in the Result with error category
\* ParseError: an error Result stored by a run that never obtained a
\* non-empty question list has error_type ParseError.
C30_Stage2FailureIsParseError ==
    (result.kind = "error" /\ questions \in {Unassigned, 0}) =>
        result.error_type = "ParseError"
C32_OneAnswerPerQuestion ==
    pc \in {"answers_done", "render", "diagrams_done", "pdf"} =>
        /\ Len(answers) = questions
        /\ \A p \in 1..Len(answers) : answers[p].question_id = p
\* C33: whenever a status poll answers with status complete the percentage
\* it reports is 100: no interleaving of the poll with the finalize steps
\* of the run shows complete together with a lower percentage.
C33_CompleteMeansHundred ==
    (response.op = "status" /\ response.code = 200
        /\ response.status = COMPLETE) => response.progress = 100
\* C34: a regenerate request for an index k the operation accepts (k below
\* the length of the preview list, negative k included) answers success
\* with an answer text t, and afterwards the stored preview entry whose
\* index is k holds t.
C34_RegenerateStoresText ==
    [][\A k \in RegenerateIndices :
          (/\ response' = RegenerateResponse(k)
           /\ session # EmptyHash
           /\ k < Len(answersList))
          => /\ response'.code = 200
             /\ \E p \in 1..Len(answersList') :
                   /\ answersList'[p].index = k
                   /\ answersList'[p].answer = response'.answer]_vars
\* C35: a failure of the store while a progress event is appended never
\* aborts the run and never changes its outcome: no store failure reaches
\* the except clause of the task, a step that loses its events moves the
\* task exactly as it would have, and the run ends with the status and the
\* Result that its questions, answers and document determine.
C35_AppendFailureHarmless ==
    /\ [](exc.type # "ConnectionError")
    /\ [](pc = "succeeded" =>
            (Status = COMPLETE /\ result = SuccessResult
                /\ result.answers_generated = questions))
    /\ [](pc = "failed" => (Status = ERROR /\ result = ErrorResult))
    /\ [][(outage /\ pc' # pc) =>
             (progressLog' = progressLog /\ (exc' # exc => pc = "parse"
                 \/ pc = "services" \/ pc = "pdf" \/ pc = "save_pdf"))]_vars

\* every append of the run failed: the run is complete with an empty
\* progress list, and a status poll has answered in that state
C35_Witness ==
    /\ pc = "succeeded"
    /\ outage
    /\ progressLog = <<>>
    /\ Status = COMPLETE
    /\ result.kind = "success"
    /\ response.op = "status"
\* C36: create_session called with an identifier that already has a session
\* does not reset it: the status, the latest-progress projection, the
\* progress log, the preview list and the Result stay as they were, so a
\* processing or terminal session never goes back to pending.
C36_CreateKeepsExisting ==
    [][response'.op = "create" =>
          /\ Status' = Status
          /\ UNCHANGED <<session, progressLog, answersList, result>>]_vars
\* C37: update_session_status or add_progress_event on an identifier whose
\* session was deleted or has expired does not create a session record:
\* once the record of a submitted session is gone it stays gone, so
\* get_session keeps answering not-found and no record holding only the
\* status or the progress fields appears.
C37_NoRecordAfterDelete ==
    [][(session = EmptyHash /\ pc # "idle") => session' = EmptyHash]_vars
\* C38: every input file written by a submission is eventually deleted,
\* also when dispatching the run failed after the file was written, and
\* the session of such a submission does not stay pending forever.
C38_InputFileReleased ==
    /\ uploadFile ~> ~uploadFile
    /\ (Status = PENDING) ~> (Status # PENDING)
\* C39: get_latest_progress answers not-found exactly when get_session
\* does: for a session that exists it returns a projection, and while no
\* progress event has been appended that projection is percentage 0 with
\* status pending.
C39_LatestProgressFoundIffSession ==
    /\ GetLatestProgress(session).found <=> (session # EmptyHash)
    /\ (session # EmptyHash /\ progressLog = <<>> /\ Status = PENDING) =>
          /\ GetLatestProgress(session).progress = 0
          /\ GetLatestProgress(session).status = PENDING

====
